---- MODULE Spec2Model ----
(***************************************************************************)
(* State-machine model of the video post-production server (server.js).   *)
(*                                                                         *)
(* The server keeps three process-wide path variables and a shared temp   *)
(* directory.  Every HTTP handler is an async function: an action of the  *)
(* model is what a handler or callback does between two awaits.  Clients  *)
(* are modelled as jobs; a job has at most one request in flight.  Which  *)
(* job a request belongs to is not known to the server: it is recorded    *)
(* here only to state properties about jobs.  budget.overlaps is the      *)
(* number of requests that may be admitted while a request of the other   *)
(* job is in flight; under Spec it is 0, so requests of the two jobs      *)
(* alternate but do not overlap.  ConcSpec, TwinSpec and LateSpec go on  *)
(* from states that Spec or ConcSpec reach: with one overlap after a full *)
(* run, with a second stage call beside one in flight, and with one more *)
(* call after a thumbnail merge.  LiveSpec is LateSpec with the fairness  *)
(* that the steps of a download can count on.                             *)
(***************************************************************************)
EXTENDS Integers, FiniteSets, Sequences, TLC

(* ------------------------------ bounds -------------------------------- *)
\* number of requests that draw a fresh uuid before the model stops admitting
MaxCalls == 3
\* largest value of the millisecond clock (Date.now)
MaxClock == 1
\* largest number of stderr chunks a subprocess emits
MaxChunks == 1
\* number of adverse outcomes (network errors, failed writes, failing or slow
\* subprocesses) the environment produces in one run
MaxFaults == 1
\* the budgets of the runs in which two requests may be in progress together
ConcCalls == 1
ConcFaults == 1
ConcOverlaps == 1
\* the budgets of the runs in which two stage calls are in progress together
TwinCalls == 1
TwinOverlaps == 1
\* the stage calls of the runs that go on after a thumbnail merge
LateCalls == 1

\* the clients (jobs) that send requests
Jobs == {1, 2}

\* the values of the clock
Times == 0..MaxClock

(* ------------------------------ paths --------------------------------- *)
\* the JavaScript null of an unset path variable
NULL == <<>>

\* path.join('temp', `${prefix}_${uuidv4()}...`): one uuid is drawn per call n;
\* names built from different prefixes never coincide
UuidPath(kind, n) == <<kind, n>>

\* path.join('temp', `final_video_${Date.now()}.mp4`)
StampPath(t) == <<"final_video", t>>

VARIABLES
  currentVideoPath,    \* server.js:17
  processedVideoPath,  \* server.js:18
  finalVideoPath,      \* server.js:19
  fs,                  \* files on disk: path -> [st, by]
  clock,               \* the last value Date.now() returned
  calls,               \* uuids drawn so far
  budget,              \* what the explored scenario still allows
  req,                 \* per job: the request in flight and its locals
  tx,                  \* per job: the transcode invocation of the request
  unlinkQ,             \* callback-style fs.unlink calls not yet performed
  resp,                \* per job: the last HTTP response sent
  done                 \* outputs of stage calls that returned success

vars == <<currentVideoPath, processedVideoPath, finalVideoPath, fs, clock,
          calls, budget, req, tx, unlinkQ, resp, done>>

slots == <<currentVideoPath, processedVideoPath, finalVideoPath>>

(* ---------------------------- file system ----------------------------- *)
\* fsSync.existsSync(p)
Exists(p) == p \in DOMAIN fs

\* a file is created or overwritten
Put(f, p, st, j) ==
  [q \in (DOMAIN f) \cup {p} |->
     IF q = p THEN [st |-> st, by |-> j, at |-> calls] ELSE f[q]]

\* a file is removed (no effect when it is not there)
Del(f, p) == [q \in (DOMAIN f) \ {p} |-> f[q]]

\* the files of S are removed
DelAll(f, S) == [q \in (DOMAIN f) \ S |-> f[q]]

(* ------------------------------ records ------------------------------- *)
NoReq == [op |-> "idle", pc |-> "idle", call |-> 0, in |-> NULL, out |-> NULL,
          aux |-> NULL, music |-> NULL, sub |-> NULL, i |-> 0, tmp |-> NULL,
          wantMusic |-> FALSE, wantVideo |-> FALSE,
          snap |-> <<NULL, NULL, NULL>>, kept |-> {}, list |-> {}, url |-> {}]

NoTx == [kind |-> "none", proc |-> "none", code |-> -1, timer |-> FALSE,
         fired |-> FALSE, settled |-> "none", err |-> "none", stderr |-> 0,
         diag |-> 0, ins |-> {}, out |-> NULL, wrote |-> FALSE,
         closed |-> FALSE]

\* exit statuses of a subprocess; the status of a killed one is null
Codes == {0, 1}
NullCode == -1

NoResp == [op |-> "none", status |-> 0, out |-> NULL, outExists |-> FALSE,
           outSt |-> "none", started |-> FALSE, ran |-> FALSE, code |-> -1,
           aux |-> NULL, auxExists |-> FALSE, snap |-> <<NULL, NULL, NULL>>,
           kept |-> {}, after |-> <<NULL, NULL, NULL>>, afterExists |-> {},
           verified |-> FALSE, hasMusic |-> FALSE, mixed |-> FALSE,
           snapExists |-> {}]

Init ==
  /\ currentVideoPath = NULL
  /\ processedVideoPath = NULL
  /\ finalVideoPath = NULL
  /\ fs = <<>>
  /\ clock = 0
  /\ calls = 0
  /\ budget = [calls |-> MaxCalls, faults |-> MaxFaults, overlaps |-> 0]
  /\ req = [j \in Jobs |-> NoReq]
  /\ tx = [j \in Jobs |-> NoTx]
  /\ unlinkQ = {}
  /\ resp = [j \in Jobs |-> NoResp]
  /\ done = {}

\* a client sends a request once it has received the answer to its previous
\* one
Idle(j) == /\ req[j].op = "idle"
           /\ resp[j].op = "none"
           /\ tx[j].kind = "none"

\* the slots (1 source, 2 working, 3 final) that hold the existing output of a
\* stage call that returned success
Held(s, f) == {k \in 1..3 : s[k] # NULL /\ s[k] \in DOMAIN f /\ s[k] \in done}

\* the request is admitted while the request of another client is in flight
Overlaps(j) == \E k \in Jobs \ {j} : ~Idle(k)

\* the server admits a request of job j, which draws a uuid or not
Admit(j, draws) ==
  /\ Idle(j)
  /\ draws => budget.calls > 0
  /\ Overlaps(j) => budget.overlaps > 0
  /\ budget' = [budget EXCEPT
                  !.calls = IF draws THEN @ - 1 ELSE @,
                  !.overlaps = IF Overlaps(j) THEN @ - 1 ELSE @]
  /\ calls' = IF draws THEN calls + 1 ELSE calls

\* a request of operation op is admitted; the slots it finds are remembered
NewReq(op) == [NoReq EXCEPT !.op = op, !.snap = slots, !.kept = Held(slots, fs)]

\* the response a handler sends, with what is on disk at that moment:
\* f is the file system and s the slots when the response is sent
\* t is the transcode invocation of the request and d the outputs of the
\* successful stage calls
Answer(r, status, f, s, t, d) ==
  [NoResp EXCEPT
     !.op = r.op, !.status = status,
     !.out = r.out, !.outExists = (r.out \in DOMAIN f),
     !.outSt = IF r.out \in DOMAIN f THEN f[r.out].st ELSE "none",
     !.started = t.wrote, !.ran = (t.kind # "none"), !.code = t.code,
     !.aux = r.aux, !.auxExists = (r.aux \in DOMAIN f),
     !.snap = r.snap, !.kept = r.kept, !.after = s,
     !.afterExists = {k \in 1..3 : s[k] \in DOMAIN f},
     !.snapExists = {k \in 1..3 : r.snap[k] \in DOMAIN f},
     !.verified = (r.out \in d), !.mixed = (r.music \in t.ins)]

\* res.json / res.status(..).json: the response is recorded, the handler ends
Respond(j, r) ==
  /\ resp' = [resp EXCEPT ![j] = r]
  /\ req' = [req EXCEPT ![j] = NoReq]

(* ----------------------- transcode invocations ------------------------ *)
\* a subprocess is spawned on the inputs ins to write out; timer tells whether
\* the call site arms a timeout for it
TxStart(kind, ins, out, timer) ==
  [NoTx EXCEPT !.kind = kind, !.proc = "running", !.timer = timer,
               !.settled = "pending", !.ins = ins, !.out = out]

\* resolve() and reject() of a promise: only the first call settles it
Resolve(t) == IF t.settled = "pending" THEN [t EXCEPT !.settled = "ok"] ELSE t

Reject(t, e, d) ==
  IF t.settled = "pending"
  THEN [t EXCEPT !.settled = "err", !.err = e, !.diag = d]
  ELSE t

\* the environment produces an adverse outcome when b holds
Fault(b) ==
  IF b
  THEN budget.faults > 0 /\ budget' = [budget EXCEPT !.faults = @ - 1]
  ELSE UNCHANGED budget

\* every input file of the subprocess is on disk
InputsThere(j) == \A p \in tx[j].ins : Exists(p)

\* the subprocess creates its output file and starts filling it; ffmpeg opens
\* its inputs first and gives up when one is missing
ProcWrite(j) ==
  /\ tx[j].proc = "running"
  /\ ~tx[j].wrote
  /\ InputsThere(j)
  /\ fs' = Put(fs, tx[j].out, "partial", j)
  /\ tx' = [tx EXCEPT ![j].wrote = TRUE]
  /\ UNCHANGED <<slots, clock, calls, budget, req, unlinkQ, resp, done>>

\* the output file once the subprocess has exited with status code and left
\* its output in condition o
ExitFs(j, code, o) ==
  IF code # 0 \/ o = "none" THEN fs
  ELSE IF tx[j].wrote /\ ~Exists(tx[j].out) THEN fs
  ELSE Put(fs, tx[j].out, o, j)

\* the subprocess exits by itself; with status 0 it has completed its output,
\* left it empty, or not produced it at all.  A failing subprocess has written
\* n chunks to its diagnostic channel, which the invoker has appended to its
\* buffer (server.js:143-146; exec and fluent-ffmpeg buffer stderr themselves).
\* A subprocess for which this never happens is one that never exits.
ProcExit(j, code, o, n) ==
  /\ tx[j].proc = "running"
  /\ code = 0 \/ o = "none"
  /\ code = 0 => n = 0
  /\ tx[j].wrote /\ code = 0 => o = "ok"
  /\ ~InputsThere(j) => code # 0
  /\ Fault(InputsThere(j) /\ (code # 0 \/ o # "ok"))
  /\ fs' = ExitFs(j, code, o)
  /\ tx' = [tx EXCEPT ![j].proc = "exited", ![j].code = code,
                      ![j].stderr = n]
  /\ UNCHANGED <<slots, clock, calls, req, unlinkQ, resp, done>>

\* a callback-style fs.unlink issued earlier is performed
AsyncUnlink(p) ==
  /\ p \in unlinkQ
  /\ fs' = Del(fs, p)
  /\ unlinkQ' = unlinkQ \ {p}
  /\ UNCHANGED <<slots, clock, calls, budget, req, tx, resp, done>>

\* the client receives the response; the subprocess of the request, if one
\* was started, is gone by then
Receive(j) ==
  /\ resp[j].op # "none"
  /\ tx[j].kind = "none" \/ tx[j].closed
  /\ resp' = [resp EXCEPT ![j] = NoResp]
  /\ tx' = [tx EXCEPT ![j] = NoTx]
  /\ UNCHANGED <<slots, fs, clock, calls, budget, req, unlinkQ, done>>

\* Date.now() returns t: the value of the previous reading or a later one.
\* An action that does not read the clock is given t = clock.
Now(t, reads) ==
  IF reads
  THEN t \in {clock, clock + 1} /\ t <= MaxClock /\ clock' = t
  ELSE t = clock /\ UNCHANGED clock

(* --------------------------- POST /extract-audio ---------------------- *)
\* path.join(os.tmpdir(), `temp_${Date.now()}.mp4`)  (server.js:361)
TempPath(t) == <<"tmp", t>>

\* a loop that goes from a failed strategy straight to the last one
NextStrategySkipping(r, t) ==
  [r EXCEPT !.i = 3, !.pc = "dl_scan", !.tmp = NULL]

\* downloadGoogleDriveFile's loop (server.js:299-311): strategy r.i has failed;
\* strategies 1 and 2 enter attemptDownload, strategy 3 handleVirusScanPage
NextStrategy(r, t) ==
  [r EXCEPT !.i = r.i + 1,
            !.pc = IF r.i + 1 = 3 THEN "dl_scan" ELSE "dl_get",
            !.tmp = IF r.i + 1 = 3 THEN NULL ELSE TempPath(t)]

\* the failure of strategy i is followed by a call of attemptDownload, which
\* reads the clock
ReadsClock(i) == i = 1

\* a strategy throws: the next one is tried, or after the last one the error
\* reaches the catch of /extract-audio (server.js:305-309, 528-531)
StrategyFail(j, f, t, now) ==
  /\ Now(now, ReadsClock(req[j].i))
  /\ IF req[j].i < 3
     THEN /\ req' = [req EXCEPT ![j] = NextStrategy(@, now)]
          /\ UNCHANGED resp
     ELSE Respond(j, Answer(req[j], 500, f, slots, t, done))

\* server.js:482-498: the request arrives
EaStart(j, googleDriveFileID, now) ==
  /\ Admit(j, googleDriveFileID)
  /\ Now(now, googleDriveFileID)
  /\ IF ~googleDriveFileID
     THEN /\ resp' = [resp EXCEPT ![j] =
                 Answer(NewReq("ea"), 400, fs, slots, NoTx, done)]
          /\ UNCHANGED req
     ELSE /\ req' = [req EXCEPT ![j] =
                 [NewReq("ea") EXCEPT
                    !.call = calls + 1, !.pc = "dl_get", !.i = 1,
                    !.in = UuidPath("input", calls + 1),
                    !.out = UuidPath("input", calls + 1),
                    !.tmp = TempPath(now)]]
          /\ UNCHANGED resp
  /\ UNCHANGED <<slots, fs, tx, unlinkQ, done>>

\* what handleVirusScanPage looks for in the confirmation page: the form's
\* action URL and the hidden inputs (server.js:424-428)
Fields == {"action", "id", "export", "confirm", "uuid"}
Required == {"action", "id", "export", "confirm"}

\* the answers to the request of the confirmation page: a page in which the
\* regular expressions find the fields of a subset of Fields, or no answer
NetErr == {"neterr"}
Pages == (SUBSET Fields) \cup {NetErr}

\* a parser that is content with the action URL and the id
ParsedLax(page) == {"action", "id"} \subseteq page

\* server.js:430: the four matches that must not be null
Parsed(page) == /\ "action" \in page
                /\ "id" \in page
                /\ "export" \in page
                /\ "confirm" \in page

\* server.js:435-445: the parameters appended to the download URL
ScanParams(page) ==
  {"id", "export", "confirm"} \cup (IF "uuid" \in page THEN {"uuid"} ELSE {})

\* handleVirusScanPage (server.js:412-449): the confirmation page arrives or
\* the request fails; the form is parsed and, if complete, attemptDownload is
\* called with the reconstructed URL
DlScan(j, page, now) ==
  /\ req[j].pc = "dl_scan"
  /\ Fault(page = NetErr)
  /\ IF page # NetErr /\ Parsed(page)
     THEN /\ Now(now, TRUE)
          /\ req' = [req EXCEPT ![j].pc = "dl_get", ![j].tmp = TempPath(now),
                                ![j].url = ScanParams(page)]
          /\ UNCHANGED resp
     ELSE StrategyFail(j, fs, tx[j], now)
  /\ UNCHANGED <<slots, fs, calls, tx, unlinkQ, done>>

\* an attemptDownload without the content-type test: whatever is answered is
\* piped into the temp file
DlGetStoringHtml(j, answer, now) ==
  /\ req[j].pc = "dl_get"
  /\ Fault(answer = "neterr")
  /\ IF answer \in {"stream", "html"}
     THEN /\ Now(now, FALSE)
          /\ fs' = Put(fs, req[j].tmp, "partial", j)
          /\ req' = [req EXCEPT ![j].pc = "dl_write"]
          /\ UNCHANGED resp
     ELSE /\ StrategyFail(j, fs, tx[j], now)
          /\ UNCHANGED fs
  /\ UNCHANGED <<slots, calls, tx, unlinkQ, done>>

\* attemptDownload (server.js:362-376): the response headers arrive
DlGet(j, answer, now) ==
  /\ req[j].pc = "dl_get"
  /\ Fault(answer = "neterr")
  /\ IF answer = "stream"
     THEN /\ Now(now, FALSE)
          /\ fs' = Put(fs, req[j].tmp, "partial", j)
          /\ req' = [req EXCEPT ![j].pc = "dl_write"]
          /\ UNCHANGED resp
     ELSE /\ StrategyFail(j, fs, tx[j], now)
          /\ UNCHANGED fs
  /\ UNCHANGED <<slots, calls, tx, unlinkQ, done>>

\* an attemptDownload that also stores the raw download at the final path
DlFinishStoringRaw(j, size, now) ==
  /\ req[j].pc = "dl_write"
  /\ Fault(size = "empty")
  /\ IF ~Exists(req[j].tmp)
     THEN /\ Now(now, FALSE)
          /\ req' = [req EXCEPT ![j].pc = "dl_lost"]
          /\ UNCHANGED <<fs, tx, resp>>
     ELSE IF size = "empty"
     THEN /\ fs' = Del(fs, req[j].tmp)
          /\ StrategyFail(j, fs', tx[j], now)
          /\ UNCHANGED tx
     ELSE /\ Now(now, FALSE)
          /\ fs' = Put(Put(fs, req[j].tmp, "ok", fs[req[j].tmp].by),
                       req[j].in, "ok", j)
          /\ tx' = [tx EXCEPT ![j] =
                      TxStart("exec", {req[j].tmp}, req[j].in, TRUE)]
          /\ req' = [req EXCEPT ![j].pc = "dl_compress"]
          /\ UNCHANGED resp
  /\ UNCHANGED <<slots, calls, unlinkQ, done>>

\* attemptDownload (server.js:379-389): the writer emits 'finish'
DlFinish(j, size, now) ==
  /\ req[j].pc = "dl_write"
  /\ Fault(size = "empty")
  /\ IF ~Exists(req[j].tmp)
     THEN \* statSync throws inside the event handler: the promise never settles
          /\ Now(now, FALSE)
          /\ req' = [req EXCEPT ![j].pc = "dl_lost"]
          /\ UNCHANGED <<fs, tx, resp>>
     ELSE IF size = "empty"
     THEN /\ fs' = Del(fs, req[j].tmp)
          /\ StrategyFail(j, fs', tx[j], now)
          /\ UNCHANGED tx
     ELSE /\ Now(now, FALSE)
          /\ fs' = Put(fs, req[j].tmp, "ok", fs[req[j].tmp].by)
          /\ tx' = [tx EXCEPT ![j] =
                      TxStart("exec", {req[j].tmp}, req[j].in, TRUE)]
          /\ req' = [req EXCEPT ![j].pc = "dl_compress"]
          /\ UNCHANGED resp
  /\ UNCHANGED <<slots, calls, unlinkQ, done>>

\* a writer 'error' handler that leaves the raw download behind
DlWriteErrorLeavingFile(j, now) ==
  /\ req[j].pc = "dl_write"
  /\ Fault(TRUE)
  /\ StrategyFail(j, fs, tx[j], now)
  /\ UNCHANGED <<slots, fs, calls, tx, unlinkQ, done>>

\* attemptDownload (server.js:403-406): the writer emits 'error'
DlWriteError(j, now) ==
  /\ req[j].pc = "dl_write"
  /\ Fault(TRUE)
  /\ fs' = Del(fs, req[j].tmp)
  /\ StrategyFail(j, fs', tx[j], now)
  /\ UNCHANGED <<slots, calls, tx, unlinkQ, done>>

\* attemptDownload (server.js:376-407): after the headers the response stream
\* emits 'error' or delivers nothing more until the socket is torn down.
\* response.data has no 'error' listener and pipe() neither ends nor destroys
\* the writer when its source fails, so the writer emits neither 'finish' nor
\* 'error': the promise stays pending and the partial file stays on disk
DlStreamError(j) ==
  /\ req[j].pc = "dl_write"
  /\ Fault(TRUE)
  /\ req' = [req EXCEPT ![j].pc = "dl_lost"]
  /\ UNCHANGED <<slots, fs, clock, calls, tx, unlinkQ, resp, done>>

\* compressVideo (server.js:333-336): exec's timeout elapses and the child is
\* killed with SIGKILL
ExecTimeout(j) ==
  /\ tx[j].kind = "exec" /\ tx[j].timer
  /\ tx[j].proc = "running"
  /\ Fault(TRUE)
  /\ tx' = [tx EXCEPT ![j].proc = "killed", ![j].code = NullCode,
                      ![j].timer = FALSE, ![j].fired = TRUE]
  /\ UNCHANGED <<slots, fs, clock, calls, req, unlinkQ, resp, done>>

\* compressVideo's exec callback (server.js:337-353)
ExecSettle(t) ==
  IF t.code # 0
  THEN IF t.proc = "killed"
       THEN Reject(t, "timeout", 0)
       ELSE Reject(t, "exit", t.stderr)
  ELSE Resolve(t)

\* attemptDownload (server.js:389-399) and /extract-audio (server.js:498-501):
\* the compression has settled; the raw download is unlinked
DlCompressed(j, now) ==
  /\ req[j].pc = "dl_compress"
  /\ tx[j].proc \in {"exited", "killed"} /\ ~tx[j].closed
  /\ tx' = [tx EXCEPT ![j] =
              [ExecSettle(@) EXCEPT !.closed = TRUE, !.timer = FALSE]]
  /\ IF ~Exists(req[j].tmp)
     THEN \* unlinkSync throws in the try and again in the catch
          /\ Now(now, FALSE)
          /\ req' = [req EXCEPT ![j].pc = "dl_lost"]
          /\ UNCHANGED <<fs, resp, currentVideoPath, done>>
     ELSE /\ fs' = Del(fs, req[j].tmp)
          /\ IF tx'[j].settled = "ok"
             THEN /\ Now(now, FALSE)
                  /\ currentVideoPath' = req[j].in
                  /\ req' = [req EXCEPT ![j].pc = "ea_run"]
                  /\ done' = done \cup {req[j].in}
                  /\ UNCHANGED resp
             ELSE /\ StrategyFail(j, fs', tx'[j], now)
                  /\ UNCHANGED <<currentVideoPath, done>>
  /\ UNCHANGED <<processedVideoPath, finalVideoPath, calls, budget, unlinkQ>>

\* server.js:505-514: the handler resumes after the download (a later tick
\* than the one that settled the compression) and starts the audio extraction
EaRun(j) ==
  /\ req[j].pc = "ea_run"
  /\ tx' = [tx EXCEPT ![j] =
              TxStart("fluent", {req[j].in}, UuidPath("audio", req[j].call),
                      FALSE)]
  /\ req' = [req EXCEPT ![j].pc = "ea_tx",
                        ![j].out = UuidPath("audio", req[j].call)]
  /\ UNCHANGED <<slots, fs, clock, calls, budget, unlinkQ, resp, done>>

\* server.js:511, 518-526: 'end' of the extraction
EaEnd(j) ==
  /\ req[j].pc = "ea_tx"
  /\ tx[j].proc = "exited" /\ tx[j].code = 0 /\ ~tx[j].closed
  /\ tx' = [tx EXCEPT ![j] = [Resolve(@) EXCEPT !.closed = TRUE]]
  /\ done' = done \cup {req[j].out}
  /\ Respond(j, Answer(req[j], 200, fs, slots, tx'[j], done'))
  /\ UNCHANGED <<slots, fs, clock, calls, budget, unlinkQ>>

\* server.js:512, 528-531: 'error' of the extraction
EaError(j) ==
  /\ req[j].pc = "ea_tx"
  /\ tx[j].proc = "exited" /\ tx[j].code # 0 /\ ~tx[j].closed
  /\ tx' = [tx EXCEPT ![j] =
              [Reject(@, "exit", @.stderr) EXCEPT !.closed = TRUE]]
  /\ Respond(j, Answer(req[j], 500, fs, slots, tx'[j], done))
  /\ UNCHANGED <<slots, fs, clock, calls, budget, unlinkQ, done>>

(* --------------------------- POST /process-video ---------------------- *)
\* server.js:559-597: the request arrives; the handler runs to its first await
PvStart(j, filterComplex) ==
  /\ Admit(j, currentVideoPath # NULL)
  /\ IF currentVideoPath = NULL
     THEN /\ resp' = [resp EXCEPT ![j] =
                 Answer(NewReq("pv"), 400, fs, slots, NoTx, done)]
          /\ UNCHANGED <<processedVideoPath, req, tx>>
     ELSE /\ processedVideoPath' = UuidPath("processed", calls + 1)
          /\ req' = [req EXCEPT ![j] =
                 [NewReq("pv") EXCEPT
                    !.call = calls + 1,
                    !.pc = IF filterComplex THEN "pv_tx" ELSE "pv_copy",
                    !.in = currentVideoPath,
                    !.out = UuidPath("processed", calls + 1)]]
          /\ tx' = [tx EXCEPT ![j] =
                 IF filterComplex
                 THEN TxStart("fluent", {currentVideoPath},
                              UuidPath("processed", calls + 1), FALSE)
                 ELSE NoTx]
          /\ UNCHANGED resp
  /\ UNCHANGED <<currentVideoPath, finalVideoPath, fs, clock, unlinkQ,
                 done>>

\* a copy path that renames the source instead of copying it
PvCopyDoneMoving(j) ==
  /\ req[j].pc = "pv_copy"
  /\ IF Exists(req[j].in)
     THEN /\ fs' = Del(Put(fs, req[j].out, fs[req[j].in].st, j), req[j].in)
          /\ done' = done \cup {req[j].out}
          /\ Respond(j, Answer(req[j], 200, fs', slots, tx[j], done'))
     ELSE /\ Respond(j, Answer(req[j], 500, fs, slots, tx[j], done))
          /\ UNCHANGED <<fs, done>>
  /\ UNCHANGED <<slots, clock, calls, budget, tx, unlinkQ>>

\* server.js:577-583: fs.copyFile has finished (or failed: source missing)
PvCopyDone(j) ==
  /\ req[j].pc = "pv_copy"
  /\ IF Exists(req[j].in)
     THEN /\ fs' = Put(fs, req[j].out, fs[req[j].in].st, j)
          /\ done' = done \cup {req[j].out}
          /\ Respond(j, Answer(req[j], 200, fs', slots, tx[j], done'))
     ELSE /\ Respond(j, Answer(req[j], 500, fs, slots, tx[j], done))
          /\ UNCHANGED <<fs, done>>
  /\ UNCHANGED <<slots, clock, calls, budget, tx, unlinkQ>>

\* server.js:609-613 and 621-626: fluent-ffmpeg emits 'end' (exit status 0);
\* the handler resumes and calls fs.stat(currentVideoPath)
PvEnd(j) ==
  /\ req[j].pc = "pv_tx"
  /\ tx[j].proc = "exited" /\ tx[j].code = 0 /\ ~tx[j].closed
  /\ finalVideoPath' = req[j].out
  /\ tx' = [tx EXCEPT ![j] = [Resolve(@) EXCEPT !.closed = TRUE]]
  /\ req' = [req EXCEPT ![j].pc = "pv_stat", ![j].tmp = currentVideoPath]
  /\ UNCHANGED <<currentVideoPath, processedVideoPath, fs, clock, calls,
                 budget, unlinkQ, resp, done>>

\* server.js:621-634: both fs.stat calls have returned; a missing file throws
PvStat(j) ==
  /\ req[j].pc = "pv_stat"
  /\ IF req[j].tmp # NULL /\ Exists(req[j].tmp) /\ Exists(req[j].out)
     THEN /\ done' = done \cup {req[j].out}
          /\ Respond(j, Answer(req[j], 200, fs, slots, tx[j], done'))
     ELSE /\ Respond(j, Answer(req[j], 500, fs, slots, tx[j], done))
          /\ UNCHANGED done
  /\ UNCHANGED <<slots, fs, clock, calls, budget, tx, unlinkQ>>

\* server.js:614-617 and 631-634: fluent-ffmpeg emits 'error' (non-zero exit)
PvError(j) ==
  /\ req[j].pc = "pv_tx"
  /\ tx[j].proc = "exited" /\ tx[j].code # 0 /\ ~tx[j].closed
  /\ tx' = [tx EXCEPT ![j] =
              [Reject(@, "exit", @.stderr) EXCEPT !.closed = TRUE]]
  /\ Respond(j, Answer(req[j], 500, fs, slots, tx'[j], done))
  /\ UNCHANGED <<slots, fs, clock, calls, budget, unlinkQ, done>>

(* ------------------------ POST /add-music-subtitles ------------------- *)
\* the await that follows the subtitle write, the music download and the
\* video download (server.js:666-707)
AmsNextPc(r, after) ==
  IF after = "sub" /\ r.wantMusic THEN "ams_music"
  ELSE IF after \in {"sub", "music"} /\ r.wantVideo THEN "ams_video"
  ELSE "ams_run"

\* server.js:708-714: the inputs of the composite transcode are the working
\* slot as it is now and the music file if it is on disk
AmsInputs(r, f, pvp) ==
  {pvp} \cup (IF r.music # NULL /\ r.music \in DOMAIN f THEN {r.music} ELSE {})

\* the handler resumes as r after an await; once nothing is left to download it
\* runs on to start the transcode (server.js:702-787)
AmsContinue(j, r, f, pvp) ==
  IF r.pc = "ams_run"
  THEN /\ tx' = [tx EXCEPT ![j] =
                   TxStart("fluent", AmsInputs(r, f, pvp), r.out, FALSE)]
       /\ req' = [req EXCEPT ![j] = [r EXCEPT !.pc = "ams_tx", !.in = pvp]]
  ELSE /\ req' = [req EXCEPT ![j] = r]
       /\ UNCHANGED tx

\* server.js:638-666: the request arrives; the handler runs to its first await
AmsStart(j, subtitleText, googleDriveFileIDForMusic, videoUrl) ==
  /\ Admit(j, processedVideoPath # NULL /\ Exists(processedVideoPath))
  /\ IF processedVideoPath = NULL \/ ~Exists(processedVideoPath)
     THEN /\ resp' = [resp EXCEPT ![j] =
                 Answer(NewReq("ams"), 400, fs, slots, NoTx, done)]
          /\ UNCHANGED <<finalVideoPath, req>>
     ELSE /\ finalVideoPath' = UuidPath("final", calls + 1)
          /\ IF ~subtitleText
             THEN /\ resp' = [resp EXCEPT ![j] =
                         Answer([NewReq("ams") EXCEPT
                                   !.out = UuidPath("final", calls + 1)],
                                400, fs,
                                <<currentVideoPath, processedVideoPath,
                                  finalVideoPath'>>,
                                NoTx, done)]
                  /\ UNCHANGED req
             ELSE /\ req' = [req EXCEPT ![j] =
                         [NewReq("ams") EXCEPT
                            !.call = calls + 1, !.pc = "ams_sub",
                            !.in = processedVideoPath,
                            !.out = UuidPath("final", calls + 1),
                            !.sub = UuidPath("subtitles", calls + 1),
                            !.wantMusic = googleDriveFileIDForMusic,
                            !.wantVideo = videoUrl]]
                  /\ UNCHANGED resp
  /\ UNCHANGED <<currentVideoPath, processedVideoPath, fs, clock, tx,
                 unlinkQ, done>>

\* server.js:666: fs.writeFile of the subtitle text has returned
AmsSubWritten(j, written) ==
  /\ req[j].pc = "ams_sub"
  /\ Fault(~written)
  /\ IF written
     THEN /\ fs' = Put(fs, req[j].sub, "ok", j)
          /\ AmsContinue(j, [req[j] EXCEPT !.pc = AmsNextPc(req[j], "sub")],
                         fs', processedVideoPath)
          /\ UNCHANGED resp
     ELSE /\ Respond(j, Answer(req[j], 500, fs, slots, tx[j], done))
          /\ UNCHANGED <<fs, tx>>
  /\ UNCHANGED <<slots, clock, calls, unlinkQ, done>>

\* server.js:670-684: downloadMusicFile has settled; a failure is logged and
\* the handler goes on without music
AmsMusicDone(j, outcome) ==
  /\ req[j].pc = "ams_music"
  /\ Fault(outcome # "ok")
  /\ LET m == UuidPath("music", req[j].call)
         r == [req[j] EXCEPT !.aux = m,
                             !.music = IF outcome = "ok" THEN m ELSE NULL,
                             !.pc = AmsNextPc(req[j], "music")]
     IN /\ fs' = IF outcome = "ok" THEN Put(fs, m, "ok", j) ELSE fs
        /\ AmsContinue(j, r, fs', processedVideoPath)
  /\ UNCHANGED <<slots, clock, calls, unlinkQ, resp, done>>

\* server.js:686-700: the download of videoUrl has settled; on success the
\* working slot is overwritten with the downloaded file
AmsVideoDone(j, outcome) ==
  /\ req[j].pc = "ams_video"
  /\ Fault(outcome # "ok")
  /\ LET v == UuidPath("video", req[j].call)
     IN /\ fs' = IF outcome = "ok" THEN Put(fs, v, "ok", j) ELSE fs
        /\ processedVideoPath' = IF outcome = "ok" THEN v
                                 ELSE processedVideoPath
        /\ AmsContinue(j, [req[j] EXCEPT !.pc = "ams_run"], fs',
                       processedVideoPath')
  /\ UNCHANGED <<currentVideoPath, finalVideoPath, clock, calls, unlinkQ,
                 resp, done>>

\* server.js:767-774 and 781-784: the files handed to callback-style unlink
AmsTemps(r) == {r.sub} \cup (IF r.aux # NULL THEN {r.aux} ELSE {})

\* server.js:764-776 and 790-795: fluent-ffmpeg emits 'end'; the unlinks are
\* issued, the output is looked for and fs.stat is awaited
AmsEnd(j) ==
  /\ req[j].pc = "ams_tx"
  /\ tx[j].proc = "exited" /\ tx[j].code = 0 /\ ~tx[j].closed
  /\ tx' = [tx EXCEPT ![j] = [Resolve(@) EXCEPT !.closed = TRUE]]
  /\ unlinkQ' = unlinkQ \cup AmsTemps(req[j])
  /\ IF Exists(req[j].out)
     THEN /\ req' = [req EXCEPT ![j].pc = "ams_stat"]
          /\ UNCHANGED resp
     ELSE Respond(j, Answer(req[j], 500, fs, slots, tx'[j], done))
  /\ UNCHANGED <<slots, fs, clock, calls, budget, done>>

\* server.js:795-816: fs.stat has returned (a missing file throws)
AmsStat(j) ==
  /\ req[j].pc = "ams_stat"
  /\ IF Exists(req[j].out)
     THEN /\ done' = done \cup {req[j].out}
          /\ Respond(j, [Answer(req[j], 200, fs, slots, tx[j], done') EXCEPT
                           !.hasMusic = (req[j].music # NULL
                                         /\ Exists(req[j].music))])
     ELSE /\ Respond(j, Answer(req[j], 500, fs, slots, tx[j], done))
          /\ UNCHANGED done
  /\ UNCHANGED <<slots, fs, clock, calls, budget, tx, unlinkQ>>

\* server.js:777-786 and 809-816: fluent-ffmpeg emits 'error'
AmsError(j) ==
  /\ req[j].pc = "ams_tx"
  /\ tx[j].proc = "exited" /\ tx[j].code # 0 /\ ~tx[j].closed
  /\ tx' = [tx EXCEPT ![j] =
              [Reject(@, "exit", @.stderr) EXCEPT !.closed = TRUE]]
  /\ unlinkQ' = unlinkQ \cup AmsTemps(req[j])
  /\ Respond(j, Answer(req[j], 500, fs, slots, tx'[j], done))
  /\ UNCHANGED <<slots, fs, clock, calls, budget, done>>

(* ----------------------- POST /merge-thumbnail-video ------------------ *)
\* server.js:50-60: the request arrives; the final slot is read once, here
MtStart(j, thumbnailID) ==
  /\ Admit(j, thumbnailID)
  /\ IF ~thumbnailID
     THEN /\ resp' = [resp EXCEPT ![j] =
                 Answer(NewReq("mt"), 400, fs, slots, NoTx, done)]
          /\ UNCHANGED req
     ELSE /\ req' = [req EXCEPT ![j] =
                 [NewReq("mt") EXCEPT
                    !.call = calls + 1, !.pc = "mt_dl",
                    !.in = finalVideoPath,
                    !.aux = UuidPath("thumbnail", calls + 1)]]
          /\ UNCHANGED resp
  /\ UNCHANGED <<slots, fs, clock, tx, unlinkQ, done>>

\* server.js:61-99: the thumbnail download has settled; the inputs are
\* validated, the output is named after the clock and ffprobe is awaited
MtDlDone(j, outcome, now) ==
  /\ req[j].pc = "mt_dl"
  /\ Fault(outcome # "ok")
  /\ fs' = IF outcome = "ok" THEN Put(fs, req[j].aux, "ok", j) ELSE fs
  /\ IF outcome # "ok"
     THEN /\ Now(now, FALSE)
          /\ Respond(j, Answer(req[j], 500, fs', slots, tx[j], done))
     ELSE IF req[j].in = NULL
     THEN /\ Now(now, FALSE)
          /\ Respond(j, Answer(req[j], 400, fs', slots, tx[j], done))
     ELSE IF ~Exists(req[j].in)
     THEN /\ Now(now, FALSE)
          /\ Respond(j, Answer(req[j], 404, fs', slots, tx[j], done))
     ELSE /\ Now(now, TRUE)
          /\ req' = [req EXCEPT ![j].pc = "mt_probe",
                                ![j].out = StampPath(now)]
          /\ UNCHANGED resp
  /\ UNCHANGED <<slots, calls, tx, unlinkQ, done>>

\* server.js:99-135: getVideoInfo has resolved (it never rejects); ffmpeg is
\* spawned and the 60 s timer is armed
MtProbed(j) ==
  /\ req[j].pc = "mt_probe"
  /\ tx' = [tx EXCEPT ![j] =
              TxStart("spawn", {req[j].aux, req[j].in}, req[j].out, TRUE)]
  /\ req' = [req EXCEPT ![j].pc = "mt_tx"]
  /\ UNCHANGED <<slots, fs, clock, calls, budget, unlinkQ, resp, done>>

\* server.js:202-231: the catch block.  It names the file to remove after the
\* clock as it reads it now, removes the thumbnail and answers 500.
MtCatch(j, f, t, now) ==
  /\ fs' = Del(Del(f, StampPath(now)), req[j].aux)
  /\ Respond(j, Answer(req[j], 500, fs', slots, t, done))

\* a 'close' handler that resolves whatever the exit status is
CloseSettleAnyStatus(t) == Resolve(t)

\* server.js:148-158: the 'close' handler settles the promise by the status
CloseSettle(t) ==
  IF t.code = 0 THEN Resolve(t) ELSE Reject(t, "exit", t.stderr)

\* server.js:132-135: the timer fires before 'close' was delivered; the child
\* is killed (no effect on one that has already exited) and the promise is
\* rejected, which takes the handler to its catch block
TimerFire(j, now) ==
  /\ tx[j].kind = "spawn" /\ tx[j].timer /\ ~tx[j].closed
  /\ tx[j].proc \in {"running", "exited"}
  /\ Fault(TRUE)
  /\ Now(now, TRUE)
  /\ tx' = [tx EXCEPT ![j] =
              [Reject(@, "timeout", 0) EXCEPT
                 !.code = IF tx[j].proc = "running" THEN NullCode ELSE @,
                 !.proc = IF @ = "running" THEN "killed" ELSE @,
                 !.timer = FALSE, !.fired = TRUE]]
  /\ MtCatch(j, fs, tx'[j], now)
  /\ UNCHANGED <<slots, calls, unlinkQ, done>>

\* server.js:160-164: 'error' of the child (ffmpeg could not be started)
SpawnError(j, now) ==
  /\ tx[j].kind = "spawn" /\ tx[j].proc = "running" /\ ~tx[j].wrote
  /\ tx[j].settled = "pending"
  /\ Fault(TRUE)
  /\ Now(now, TRUE)
  /\ tx' = [tx EXCEPT ![j] =
              [Reject(@, "spawn", 0) EXCEPT
                 !.proc = "failed", !.timer = FALSE, !.closed = TRUE]]
  /\ MtCatch(j, fs, tx'[j], now)
  /\ UNCHANGED <<slots, calls, unlinkQ, done>>

\* a 'close' handler after which the final slot is set before the exit
\* status and the output have been looked at
MtCloseSettingSlot(j, now) ==
  /\ tx[j].kind = "spawn" /\ tx[j].proc \in {"exited", "killed"}
  /\ ~tx[j].closed
  /\ tx' = [tx EXCEPT ![j] =
              [CloseSettle(@) EXCEPT !.closed = TRUE, !.timer = FALSE]]
  /\ IF tx[j].settled # "pending"
     THEN /\ Now(now, FALSE)
          /\ UNCHANGED <<fs, req, resp, finalVideoPath>>
     ELSE IF tx'[j].settled = "ok" /\ Exists(req[j].out)
     THEN /\ Now(now, FALSE)
          /\ req' = [req EXCEPT ![j].pc = "mt_stat"]
          /\ UNCHANGED <<fs, resp, finalVideoPath>>
     ELSE /\ Now(now, TRUE)
          /\ finalVideoPath' = req[j].out
          /\ fs' = Del(Del(fs, StampPath(now)), req[j].aux)
          /\ Respond(j, Answer(req[j], 500, fs',
                               <<currentVideoPath, processedVideoPath,
                                 finalVideoPath'>>, tx'[j], done))
  /\ UNCHANGED <<currentVideoPath, processedVideoPath, calls, budget,
                 unlinkQ, done>>

\* server.js:148-173: 'close' of the child is delivered.  If the promise was
\* still pending the handler resumes: on success it looks for the output and
\* awaits fs.stat, otherwise it enters its catch block.
MtClose(j, now) ==
  /\ tx[j].kind = "spawn" /\ tx[j].proc \in {"exited", "killed"}
  /\ ~tx[j].closed
  /\ tx' = [tx EXCEPT ![j] =
              [CloseSettle(@) EXCEPT !.closed = TRUE, !.timer = FALSE]]
  /\ IF tx[j].settled # "pending"
     THEN /\ Now(now, FALSE)
          /\ UNCHANGED <<fs, req, resp>>
     ELSE IF tx'[j].settled = "ok" /\ Exists(req[j].out)
     THEN /\ Now(now, FALSE)
          /\ req' = [req EXCEPT ![j].pc = "mt_stat"]
          /\ UNCHANGED <<fs, resp>>
     ELSE /\ Now(now, TRUE)
          /\ MtCatch(j, fs, tx'[j], now)
  /\ UNCHANGED <<slots, calls, budget, unlinkQ, done>>

\* server.js:173-200: fs.stat has returned; the final slot is set, the
\* thumbnail is removed and the success is answered
MtStat(j, now) ==
  /\ req[j].pc = "mt_stat"
  /\ IF Exists(req[j].out)
     THEN /\ Now(now, FALSE)
          /\ finalVideoPath' = req[j].out
          /\ fs' = Del(fs, req[j].aux)
          /\ done' = done \cup {req[j].out}
          /\ Respond(j, Answer(req[j], 200, fs',
                               <<currentVideoPath, processedVideoPath,
                                 finalVideoPath'>>, tx[j], done'))
     ELSE /\ Now(now, TRUE)
          /\ MtCatch(j, fs, tx[j], now)
          /\ UNCHANGED <<finalVideoPath, done>>
  /\ UNCHANGED <<currentVideoPath, processedVideoPath, calls, budget, tx,
                 unlinkQ>>

(* --------------------------- GET /get-final-video --------------------- *)
\* server.js:820-826
GetFinalVideo(j) ==
  /\ Admit(j, FALSE)
  /\ resp' = [resp EXCEPT ![j] =
        Answer([NewReq("gfv") EXCEPT !.out = finalVideoPath],
               IF finalVideoPath # NULL /\ Exists(finalVideoPath)
               THEN 200 ELSE 404,
               fs, slots, NoTx, done)]
  /\ UNCHANGED <<slots, fs, clock, req, tx, unlinkQ, done>>

(* ------------------------------ POST /cleanup ------------------------- *)
\* the files of the directory 'temp' (the raw downloads are in os.tmpdir())
TempDir(f) == {p \in DOMAIN f : p[1] # "tmp"}

\* the listed files that are on disk and whose age exceeds oneHour when the
\* hour before 'now' (server.js:843-844, 850) began after the files of call h
\* had been written: stats.mtime orders the files as the calls wrote them
Expired(f, list, h) == {p \in list : p \in DOMAIN f /\ f[p].at <= h}

\* server.js:829-842: the request arrives; the files the three slots name are
\* unlinked if they exist, then the directory is read
CuStart(j) ==
  /\ Admit(j, FALSE)
  /\ fs' = DelAll(fs, {currentVideoPath, processedVideoPath, finalVideoPath})
  /\ req' = [req EXCEPT ![j] = [NewReq("cu") EXCEPT !.pc = "cu_list"]]
  /\ UNCHANGED <<slots, clock, tx, unlinkQ, resp, done>>

\* server.js:842: fs.readdir has returned the names in the directory
CuList(j) ==
  /\ req[j].pc = "cu_list"
  /\ req' = [req EXCEPT ![j].pc = "cu_sweep", ![j].list = TempDir(fs)]
  /\ UNCHANGED <<slots, fs, clock, calls, budget, tx, unlinkQ, resp, done>>

\* server.js:843-869: every listed file is stat'ed and unlinked if its age
\* exceeds one hour; then the slots are reset and success is answered.  The
\* stat of a listed file that is no longer there throws: the loop stops with
\* the files S visited before it handled (the order of the listing is
\* arbitrary), the slots are not reset and 500 is answered.
CuSweep(j, h) ==
  /\ req[j].pc = "cu_sweep"
  /\ IF \A p \in req[j].list : Exists(p)
     THEN /\ fs' = DelAll(fs, Expired(fs, req[j].list, h))
          /\ currentVideoPath' = NULL
          /\ processedVideoPath' = NULL
          /\ finalVideoPath' = NULL
          /\ Respond(j, Answer(req[j], 200, fs', <<NULL, NULL, NULL>>,
                               tx[j], done))
     ELSE /\ \E S \in SUBSET Expired(fs, req[j].list, h) :
               /\ fs' = DelAll(fs, S)
               /\ Respond(j, Answer(req[j], 500, fs', slots, tx[j], done))
          /\ UNCHANGED slots
  /\ UNCHANGED <<clock, calls, budget, tx, unlinkQ, done>>

Next ==
  \/ \E j \in Jobs : Receive(j)
  \/ \E p \in unlinkQ : AsyncUnlink(p)
  \/ \E j \in Jobs : ProcWrite(j)
  \/ \E j \in Jobs, code \in Codes, o \in {"ok", "empty", "none"},
       n \in 0..MaxChunks : ProcExit(j, code, o, n)
  \/ \E j \in Jobs, id \in BOOLEAN, now \in Times : EaStart(j, id, now)
  \/ \E j \in Jobs, page \in Pages, now \in Times :
       DlScan(j, page, now)
  \/ \E j \in Jobs, a \in {"neterr", "html", "stream"}, now \in Times :
       DlGet(j, a, now)
  \/ \E j \in Jobs, size \in {"empty", "ok"}, now \in Times :
       DlFinish(j, size, now)
  \/ \E j \in Jobs, now \in Times : DlWriteError(j, now)
  \/ \E j \in Jobs : DlStreamError(j)
  \/ \E j \in Jobs : ExecTimeout(j)
  \/ \E j \in Jobs, now \in Times : DlCompressed(j, now)
  \/ \E j \in Jobs : EaRun(j)
  \/ \E j \in Jobs : EaEnd(j)
  \/ \E j \in Jobs : EaError(j)
  \/ \E j \in Jobs, f \in BOOLEAN : PvStart(j, f)
  \/ \E j \in Jobs : PvCopyDone(j)
  \/ \E j \in Jobs : PvEnd(j)
  \/ \E j \in Jobs : PvStat(j)
  \/ \E j \in Jobs : PvError(j)
  \/ \E j \in Jobs, sub \in BOOLEAN, music \in BOOLEAN, url \in BOOLEAN :
       AmsStart(j, sub, music, url)
  \/ \E j \in Jobs, w \in BOOLEAN : AmsSubWritten(j, w)
  \/ \E j \in Jobs, o \in {"ok", "neterr"} : AmsMusicDone(j, o)
  \/ \E j \in Jobs, o \in {"ok", "neterr"} : AmsVideoDone(j, o)
  \/ \E j \in Jobs : AmsEnd(j)
  \/ \E j \in Jobs : AmsStat(j)
  \/ \E j \in Jobs : AmsError(j)
  \/ \E j \in Jobs, id \in BOOLEAN : MtStart(j, id)
  \/ \E j \in Jobs, o \in {"ok", "neterr"}, now \in Times :
       MtDlDone(j, o, now)
  \/ \E j \in Jobs : MtProbed(j)
  \/ \E j \in Jobs, now \in Times : TimerFire(j, now)
  \/ \E j \in Jobs, now \in Times : SpawnError(j, now)
  \/ \E j \in Jobs, now \in Times : MtClose(j, now)
  \/ \E j \in Jobs, now \in Times : MtStat(j, now)
  \/ \E j \in Jobs : GetFinalVideo(j)
  \/ \E j \in Jobs : CuStart(j)
  \/ \E j \in Jobs : CuList(j)
  \/ \E j \in Jobs, h \in 0..MaxCalls : CuSweep(j, h)

Spec == Init /\ [][Next]_vars

(* The state in which a client has taken one video through extract-audio,
   process-video and add-music-subtitles and has received the three answers:
   Spec reaches it with its three stage calls. *)
AfterFullRun ==
  /\ currentVideoPath = UuidPath("input", 1)
  /\ processedVideoPath = UuidPath("processed", 2)
  /\ finalVideoPath = UuidPath("final", 3)
  /\ fs = [p \in {UuidPath("input", 1), UuidPath("audio", 1),
                  UuidPath("processed", 2), UuidPath("final", 3)} |->
             [st |-> "ok", by |-> 1, at |-> p[2]]]
  /\ clock = 0
  /\ calls = 3
  /\ req = [j \in Jobs |-> NoReq]
  /\ tx = [j \in Jobs |-> NoTx]
  /\ unlinkQ = {}
  /\ resp = [j \in Jobs |-> NoResp]
  /\ done = {UuidPath("input", 1), UuidPath("audio", 1),
             UuidPath("processed", 2), UuidPath("final", 3)}

(* The server with two requests in progress together.  From AfterFullRun
   ConcCalls more stage calls are made, any number of calls that draw no
   uuid, and ConcOverlaps times a request is admitted while another is in
   progress. *)
ConcInit ==
  /\ AfterFullRun
  /\ budget = [calls |-> ConcCalls, faults |-> ConcFaults,
               overlaps |-> ConcOverlaps]

ConcSpec == ConcInit /\ [][Next]_vars

(* The server going on, one request at a time, from the state in which a
   client has taken one video through extract-audio, process-video (with a
   filter) and merge-thumbnail-video and has received the three answers (Spec
   reaches that state with its three stage calls): LateCalls more stage calls
   are made. *)
LateInit ==
  /\ currentVideoPath = UuidPath("input", 1)
  /\ processedVideoPath = UuidPath("processed", 2)
  /\ finalVideoPath = StampPath(0)
  /\ fs = [p \in {UuidPath("input", 1), UuidPath("audio", 1),
                  UuidPath("processed", 2), StampPath(0)} |->
             [st |-> "ok", by |-> 1,
              at |-> IF p = StampPath(0) THEN 3 ELSE p[2]]]
  /\ clock = 0
  /\ calls = 3
  /\ budget = [calls |-> LateCalls, faults |-> MaxFaults, overlaps |-> 0]
  /\ req = [j \in Jobs |-> NoReq]
  /\ tx = [j \in Jobs |-> NoTx]
  /\ unlinkQ = {}
  /\ resp = [j \in Jobs |-> NoResp]
  /\ done = {UuidPath("input", 1), UuidPath("audio", 1),
             UuidPath("processed", 2), StampPath(0)}

LateSpec == LateInit /\ [][Next]_vars

(* The server with two stage calls in progress together.  It starts where,
   after a full run, merge-thumbnail-video has been called and awaits the
   download of the thumbnail (ConcSpec reaches that state by MtStart); from
   there TwinCalls more stage calls are made and TwinOverlaps times a request
   is admitted while another is in progress. *)
TwinInit ==
  /\ currentVideoPath = UuidPath("input", 1)
  /\ processedVideoPath = UuidPath("processed", 2)
  /\ finalVideoPath = UuidPath("final", 3)
  /\ fs = [p \in {UuidPath("input", 1), UuidPath("audio", 1),
                  UuidPath("processed", 2), UuidPath("final", 3)} |->
             [st |-> "ok", by |-> 1, at |-> p[2]]]
  /\ clock = 0
  /\ calls = 4
  /\ budget = [calls |-> TwinCalls, faults |-> MaxFaults,
               overlaps |-> TwinOverlaps]
  /\ done = {UuidPath("input", 1), UuidPath("audio", 1),
             UuidPath("processed", 2), UuidPath("final", 3)}
  /\ req = [j \in Jobs |->
              IF j = 1
              THEN [NewReq("mt") EXCEPT
                      !.call = 4, !.pc = "mt_dl",
                      !.in = UuidPath("final", 3),
                      !.aux = UuidPath("thumbnail", 4)]
              ELSE NoReq]
  /\ tx = [j \in Jobs |-> NoTx]
  /\ unlinkQ = {}
  /\ resp = [j \in Jobs |-> NoResp]

TwinSpec == TwinInit /\ [][Next]_vars

\* the steps of the download of job j's /extract-audio call: the answers to
\* its HTTP requests, the events of the writer and of the response stream,
\* the compression subprocess with its timeout, and the continuation of
\* attemptDownload (server.js:287-449)
Retrieval(j) ==
  \/ \E page \in Pages, now \in Times : DlScan(j, page, now)
  \/ \E a \in {"neterr", "html", "stream"}, now \in Times : DlGet(j, a, now)
  \/ \E size \in {"empty", "ok"}, now \in Times : DlFinish(j, size, now)
  \/ \E now \in Times : DlWriteError(j, now)
  \/ DlStreamError(j)
  \/ /\ req[j].pc = "dl_compress"
     /\ \/ ProcWrite(j)
        \/ \E code \in Codes, o \in {"ok", "empty", "none"},
              n \in 0..MaxChunks : ProcExit(j, code, o, n)
        \/ ExecTimeout(j)
  \/ \E now \in Times : DlCompressed(j, now)

(* LateSpec with the scheduling that the download can count on: a pending
   HTTP request is answered or fails (axios gives up after its timeout,
   server.js:367), a writer whose source ends emits 'finish', the compression
   subprocess exits or is killed by exec's timeout (server.js:333-336), and
   the event loop runs a callback that is ready.  Nothing is assumed about
   what has no such bound. *)
LiveSpec == LateSpec /\ \A j \in Jobs : WF_vars(Retrieval(j))

(* ------------------------------ properties ---------------------------- *)
\* the outputs of the composite calls (add-music-subtitles, merge-thumbnail)
\* that returned success
Composited == {p \in done : p[1] \in {"final", "final_video"}}

\* C1: the final slot is non-null only if it names the output of a composite
\* call that has returned success; segment removal never sets it, and a
\* composite call that is running, was rejected or failed does not leave it set
C1_FinalOnlyAfterComposite ==
  finalVideoPath # NULL => finalVideoPath \in Composited

\* C2: a job that has retrieved a source of its own never runs a transcode on
\* a file that another job produced
C2_OwnArtifactsOnly ==
  \A j \in Jobs :
    (\E p \in DOMAIN fs : p[1] = "input" /\ p \in done /\ fs[p].by = j)
      => \A q \in tx[j].ins : q \in DOMAIN fs => fs[q].by = j

\* C3: the composite transcode never takes as input an output of segment
\* removal that segment removal has not finished and verified
C3_CompositeReadsVerifiedInput ==
  \A j \in Jobs :
    req[j].op = "ams" /\ tx[j].kind # "none"
      => \A p \in tx[j].ins : p[1] = "processed" => p \in done

\* C4: GET /get-final-video serves a file only if it is the output of a
\* composite call that has returned success
C4_ServesOnlyComposited ==
  \A j \in Jobs :
    resp[j].op = "gfv" /\ resp[j].status = 200 => resp[j].out \in Composited

\* C5: when a stage call answers with an error, every slot that held the
\* existing output of an earlier successful call holds the same path and the
\* file is still on disk
C5_FailureKeepsEarlierArtifacts ==
  \A j \in Jobs :
    resp[j].status >= 500
      => \A k \in resp[j].kept :
           resp[j].after[k] = resp[j].snap[k] /\ k \in resp[j].afterExists

\* C6: when a stage call fails after its transcode has started to write the
\* output, the output path of the call is not on disk when the error is sent
C6_FailedOutputRemoved ==
  \A j \in Jobs :
    resp[j].status >= 500 /\ resp[j].started => ~resp[j].outExists

\* C7: when add-music-subtitles or merge-thumbnail answers with an error, the
\* music or thumbnail file the call downloaded is no longer on disk
C7_AuxRemovedOnError ==
  \A j \in Jobs :
    resp[j].op \in {"ams", "mt"} /\ resp[j].status >= 400
      => ~resp[j].auxExists

\* C8: every running transcode subprocess has a timeout armed, so that one
\* that never exits is killed and its call returns a timeout error
C8_EveryTranscodeHasTimeout ==
  \A j \in Jobs : tx[j].proc = "running" => tx[j].timer

\* C9: an invocation is settled as success only if its subprocess exited with
\* status 0 and the timeout had not fired; once the timeout has fired the
\* settled outcome is the timeout error, also after 'close' has been delivered;
\* a non-zero exit settles as a failure that carries the diagnostic text
\* accumulated from the subprocess
C9_SuccessOnlyOnZeroExit ==
  \A j \in Jobs :
    /\ tx[j].settled = "ok"
         => tx[j].proc = "exited" /\ tx[j].code = 0 /\ ~tx[j].fired
    /\ tx[j].fired /\ tx[j].settled # "pending"
         => tx[j].settled = "err" /\ tx[j].err = "timeout"
    /\ tx[j].settled = "err" /\ tx[j].err = "exit"
         => tx[j].code # 0 /\ tx[j].diag = tx[j].stderr
    /\ tx[j].closed /\ tx[j].proc = "exited" /\ tx[j].code # 0
         /\ ~tx[j].fired
         => tx[j].settled = "err" /\ tx[j].err = "exit"

\* C9 witness: the timer of merge-thumbnail fired although the subprocess had
\* exited with status 0, 'close' was delivered afterwards, and the outcome is
\* still the timeout error
C9_LateCloseAfterTimeout ==
  \E j \in Jobs :
    /\ tx[j].kind = "spawn" /\ tx[j].fired /\ tx[j].closed
    /\ tx[j].code = 0
    /\ tx[j].settled = "err" /\ tx[j].err = "timeout"
    /\ resp[j].status = 500

\* C10: a call whose transcode exited with status 0 answers success only if
\* its output file is on disk and not empty
C10_SuccessNeedsNonEmptyOutput ==
  \A j \in Jobs :
    resp[j].status = 200 /\ resp[j].ran /\ resp[j].code = 0
      => resp[j].outSt = "ok"


\* the positions of /extract-audio inside downloadGoogleDriveFile
DlPcs == {"dl_get", "dl_scan", "dl_write", "dl_compress"}

C12_HtmlNeverStored ==
  [][\A j \in Jobs, now \in Times :
       DlGet(j, "html", now)
         => /\ fs' = fs
            /\ req'[j].pc # "dl_write"
            /\ IF req[j].i < 3
               THEN req'[j].op = "ea" /\ req'[j].i = req[j].i + 1
               ELSE req'[j].op = "idle" /\ resp'[j].status = 500
    ]_vars

\* C12 witness: strategy 2 is being tried although the environment has
\* produced no adverse outcome (strategy 1 was answered with text/html), and
\* nothing is on disk
C12_HtmlThenNextStrategy ==
  \E j \in Jobs :
    /\ req[j].op = "ea" /\ req[j].i = 2 /\ req[j].pc = "dl_get"
    /\ budget.faults = MaxFaults
    /\ fs = <<>>

\* the kinds of file that the slots are made to hold
SlotKinds == {"input", "processed", "final", "final_video"}

\* C13: of the outputs of successful stage calls, at most one file per stage
\* is on disk: when a stage is invoked again, the file its earlier invocation
\* left in the slot has been deleted
C13_OneArtifactPerStage ==
  \A p \in done \cap DOMAIN fs, q \in done \cap DOMAIN fs :
    p[1] \in SlotKinds /\ p[1] = q[1] /\ (\A j \in Jobs : Idle(j)) => p = q

\* the slots an operation may change: 1 source, 2 working, 3 final
OwnSlots(op) ==
  CASE op = "ea" -> {1}
    [] op = "pv" -> {2}
    [] op \in {"ams", "mt"} -> {3}
    [] OTHER -> {}

C15_TranscodeInputVerified ==
  [][\A j \in Jobs :
        req'[j].op = "ams" /\ tx[j].kind = "none" /\ tx'[j].kind # "none"
           => /\ req'[j].in = req'[j].snap[2]
              /\ req'[j].in \in DOMAIN fs']_vars

\* C16: every successful composite call was given subtitle text (a call
\* without it is refused), so the transcode invocation whose success it
\* reports must read the subtitle file written from that text.
C16_SubtitlesBurnedIn ==
  \A j \in Jobs :
     resp[j].op = "ams" /\ resp[j].status = 200
        => \E p \in tx[j].ins : p[1] = "subtitles"

\* C17: a process-video call is taken up only when a source artifact has been
\* established, an add-music-subtitles call only when a segment-removal call
\* has completed successfully; a call refused before it has named an output
\* is answered 400 and leaves every slot as it found it.
C17_PreconditionRejects ==
  \A j \in Jobs :
     /\ req[j].op = "pv" => \E p \in done : p[1] = "input"
     /\ req[j].op = "ams" => \E p \in done : p[1] = "processed"
     /\ resp[j].op \in {"pv", "ams"} /\ resp[j].out = NULL
          => resp[j].status = 400 /\ resp[j].after = resp[j].snap

\* C18: a composite call refused with 400 (no subtitle text, or a failed
\* precondition) leaves the three slots exactly as it found them.
C18_ValidationRejectChangesNothing ==
  \A j \in Jobs :
     resp[j].op = "ams" /\ resp[j].status = 400
        => resp[j].after = resp[j].snap

\* C19: when an explicit cleanup call answers success, the source, working and
\* final slots are all null and none of the files the slots named when the
\* call arrived is on disk.
C19_CleanupClearsSlots ==
  \A j \in Jobs :
     resp[j].op = "cu" /\ resp[j].status = 200
        => /\ resp[j].after = <<NULL, NULL, NULL>>
           /\ resp[j].snapExists = {}

\* C20: the sweep of a cleanup call removes every file of the directory whose
\* age exceeds one hour and keeps every file whose age does not, whichever
\* job wrote it.
C20_SweepByAge ==
  [][\A j \in Jobs, h \in 0..MaxCalls :
        CuSweep(j, h)
           => \A p \in TempDir(fs) :
                 IF fs[p].at <= h THEN p \notin DOMAIN fs'
                                  ELSE p \in DOMAIN fs']_vars

\* C21: at most one sweep is in progress at any time: two cleanup calls are
\* never both between reading the directory and the end of their scan.
C21_SingleSweeper ==
  \A j \in Jobs, k \in Jobs :
     req[j].pc = "cu_sweep" /\ req[k].pc = "cu_sweep" => j = k

\* C22: a process-video call without filter that answers success has created
\* a file at a new path, different from the source's, with the content of the
\* source; the working slot names it and the source file and the source slot
\* are as they were.
C22_CopyPath ==
  [][\A j \in Jobs :
        PvCopyDone(j) /\ resp'[j].status = 200
           => LET src == req[j].in
                  out == req[j].out
              IN  /\ out # src
                  /\ out \notin DOMAIN fs
                  /\ out \in DOMAIN fs'
                  /\ fs'[out].st = fs[src].st
                  /\ src \in DOMAIN fs' /\ fs'[src] = fs[src]
                  /\ processedVideoPath' = out
                  /\ currentVideoPath' = src]_vars

\* a process-video call has answered success through the copy path
C22_CopiedAsIs ==
  \E j \in Jobs :
     /\ resp[j].op = "pv" /\ resp[j].status = 200 /\ ~resp[j].ran
     /\ resp[j].outExists /\ resp[j].after[2] = resp[j].out

\* C23: when merge-thumbnail-video has succeeded before the composite call,
\* the transcode of the composite call reads the output of the thumbnail
\* merge, which the final slot named when the call arrived.
C23_CompositeTakesThumbnailOutput ==
  \A j \in Jobs :
     /\ req[j].op = "ams" /\ tx[j].kind # "none"
     /\ req[j].snap[3] \in done /\ req[j].snap[3][1] = "final_video"
     => req[j].snap[3] \in tx[j].ins

\* the paths of the files that the request in progress of job j creates
Creates(j) ==
  {req[j].out, req[j].tmp, req[j].aux, req[j].music, req[j].sub} \ {NULL}

\* C24: two requests in progress together never create files at the same
\* path, even when they read the clock at the same instant.
C24_DistinctPaths ==
  \A j \in Jobs, k \in Jobs :
     j # k /\ ~Idle(j) /\ ~Idle(k) => Creates(j) \cap Creates(k) = {}

\* C25: the download of extract-audio succeeds only when the compression of
\* the raw download has exited with status 0 and settled successfully, with
\* the raw download as its input and the source artifact's path as its
\* output; and a file at a source artifact's path is created or changed only
\* by a running compression whose output it is.
C25_OnlyNormalizedIsArtifact ==
  [][/\ \A j \in Jobs :
          req[j].pc \in DlPcs /\ req'[j].pc = "ea_run"
             => /\ tx'[j].kind = "exec" /\ tx'[j].settled = "ok"
                /\ tx'[j].code = 0 /\ ~tx'[j].fired
                /\ tx'[j].ins = {req[j].tmp}
                /\ tx'[j].out = req[j].in
                /\ currentVideoPath' = req[j].in
     /\ \A p \in DOMAIN fs' :
          p[1] = "input" /\ (p \notin DOMAIN fs \/ fs'[p] # fs[p])
             => \E k \in Jobs : /\ tx[k].kind = "exec"
                                /\ tx[k].proc = "running"
                                /\ tx[k].out = p]_vars

\* the download of extract-audio has succeeded: the compressed file is the
\* source artifact and the raw download is gone
C25_CompressedSourceInPlace ==
  \E j \in Jobs :
     /\ req[j].op = "ea" /\ req[j].pc = "ea_run"
     /\ currentVideoPath = req[j].in
     /\ Exists(req[j].in) /\ fs[req[j].in].st = "ok"
     /\ ~Exists(req[j].tmp)

C27_ScrapeNeedsAllFields ==
  [][\A j \in Jobs :
      req[j].pc = "dl_scan" /\ req'[j] # req[j] =>
      \A page \in Pages, now \in Times :
        DlScan(j, page, now)
           => /\ fs' = fs
              /\ IF page # NetErr /\ Required \subseteq page
                 THEN /\ req'[j].pc = "dl_get" /\ req'[j].i = 3
                      /\ {"id", "export", "confirm"} \subseteq req'[j].url
                      /\ "uuid" \in req'[j].url <=> "uuid" \in page
                 ELSE /\ req'[j].op = "idle"
                      /\ resp'[j].op = "ea" /\ resp'[j].status = 500]_vars

\* the third strategy has parsed a page that carries a uuid and has issued
\* its download with it
C27_ScrapeWithUuid ==
  \E j \in Jobs :
     /\ req[j].op = "ea" /\ req[j].i = 3 /\ req[j].pc = "dl_write"
     /\ req[j].url = {"id", "export", "confirm", "uuid"}

\* C28: within one stage call no transcode is started after a transcode of
\* that call has failed, and the call in which the compression of the
\* download fails answers with that failure.
C28_NoAutomaticRetry ==
  [][\A j \in Jobs :
        /\ ~(tx[j].settled = "err" /\ tx'[j].settled = "pending")
        /\ tx[j].kind = "exec" /\ tx[j].settled = "pending"
             /\ tx'[j].settled = "err"
           => req'[j].op = "idle" /\ resp'[j].status = 500]_vars

\* C29: a successful composite call reports hasMusic = true exactly when the
\* downloaded music file was an input of its transcode, whenever the unlink
\* of that file is performed.
C29_HasMusicIffMixed ==
  \A j \in Jobs :
     resp[j].op = "ams" /\ resp[j].status = 200
        => (resp[j].hasMusic <=> resp[j].mixed)

\* C30: a step of a merge-thumbnail-video call changes the final slot only
\* when it answers success, and then to the call's output, the transcode
\* having exited with status 0 and settled successfully and the output being
\* on disk; every other step of the call, every rejection and every failure
\* included, leaves the final slot as it is.
C30_ThumbnailSlotOnlyOnSuccess ==
  [][\A j \in Jobs :
        /\ req[j].op = "mt" /\ (req'[j] # req[j] \/ tx'[j] # tx[j])
           => IF resp'[j].op = "mt" /\ resp'[j].status = 200
              THEN /\ finalVideoPath' = req[j].out
                   /\ tx[j].code = 0 /\ tx[j].settled = "ok"
                   /\ req[j].out \in DOMAIN fs
              ELSE finalVideoPath' = finalVideoPath
        /\ req[j].op = "idle" /\ resp[j].op = "none" /\ resp'[j].op = "mt"
           => /\ resp'[j].status # 200
              /\ finalVideoPath' = finalVideoPath]_vars

\* a merge-thumbnail-video call whose transcode ran has answered with an
\* error while the final slot named a file
C30_ThumbnailFailureKeepsSlot ==
  \E j \in Jobs :
     /\ resp[j].op = "mt" /\ resp[j].status = 500 /\ resp[j].ran
     /\ resp[j].snap[3] # NULL

\* the /extract-audio call of job j is inside downloadGoogleDriveFile
Retrieving(j) == req[j].pc \in DlPcs \cup {"dl_lost"}

\* C31: every download eventually returns: a call of /extract-audio that is
\* inside downloadGoogleDriveFile eventually leaves it, going on to the audio
\* extraction or answering the error, whatever happens to the file write and
\* to the remote response stream.
C31_RetrieveReturns ==
  \A j \in Jobs : Retrieving(j) ~> ~Retrieving(j)

====
